---- MODULE Spec2Model ----
(***************************************************************************)
(* Model of the Satchari survey form: the exclusive-ranking hook           *)
(* (useExclusiveRanking), the completeness validator (formValidation.js),  *)
(* and the App component's submit handler with the retrying transport      *)
(* (formSubmissionService).                                                *)
(*                                                                         *)
(* JavaScript values are modelled as follows:                              *)
(*   - a string used only as an atom (rank label, question id, element id) *)
(*     is a TLA+ string;                                                   *)
(*   - `undefined` (an absent object key) is the marker Undefined;         *)
(*   - `null` is the marker Null;                                          *)
(*   - free text (the final comment) is a sequence of characters, so that  *)
(*     trim() is computed and not assumed.                                 *)
(* `responses` is {qId: {optIdx: rank}}.  updateRank creates responses[q]  *)
(* together with its first key, so a question object without keys never    *)
(* exists; a question whose entries are all Undefined stands for an absent *)
(* question (every reader uses `responses[q] || {}` or `qData && ...`,     *)
(* which do not tell the two apart).                                       *)
(***************************************************************************)
EXTENDS Integers, Sequences, FiniteSets, TLC

\* ---------------------------------------------------------------- bounds
\* Highest numeric rank that is modelled (the app offers "1".."5").
MaxRank == 2
\* Longest final comment that is typed, in characters.
MaxCommentLen == 1
\* Longest error list handed to getFirstUnansweredElementId on its own.
MaxErrors == 4
\* Most timeout timers of failed attempts that are pending at one time.
MaxStaleTimers == 1
\* Highest options.maxRetries that submitForm is called with on its own.
MaxRetriesArg == 3
\* Most fragments an input of sanitizeTextInput is put together from.
MaxFragments == 3
\* Highest small maxLength that sanitizeTextInput is called with.
MaxSlice == 8
\* Most words in an error message handed to getErrorMessage on its own.
MaxWords == 4

\* ------------------------------------------------------------- constants
Undefined == "undefined"
Null == "null"

RankStr == <<"1", "2", "3", "4", "5">>

\* The question list: the two questions of two options each that the
\* repository's validation tests run on (App's own list has the same shape,
\* with nine questions of five options).
questions ==
    << [id |-> "q1", options |-> <<"Red", "Blue">>],
       [id |-> "q2", options |-> <<"Cat", "Dog">>] >>

\* const ranks = ["1", "2", "3", "4", "5", "No"], cut at MaxRank.
ranks == [k \in 1..MaxRank |-> RankStr[k]] \o <<"No">>

\* submitForm's defaults; App passes {maxRetries: 3, timeout: 5000} and
\* leaves initialRetryDelay to its default.
DEFAULT_MAX_RETRIES == 3
timeout == 5000
initialRetryDelay == 1000

\* sanitization.js
MAX_TEXT_LENGTH == 5000
MAX_COMMENT_LENGTH == 10000

QIds == {questions[k].id : k \in 1..Len(questions)}
QIndex(qId) == CHOOSE k \in 1..Len(questions) : questions[k].id = qId
OptIdxs(qId) == 0..(Len(questions[QIndex(qId)].options) - 1)
RankSet == {ranks[k] : k \in 1..Len(ranks)}
NumericRanks == {RankStr[k] : k \in 1..MaxRank}

\* The characters a comment is typed from: one whitespace, one visible.
Chars == {" ", "a"}
Whitespace == {" ", "\t", "\n"}
Texts == UNION {[1..n -> Chars] : n \in 0..MaxCommentLen}

\* The values import.meta.env.VITE_GOOGLE_SCRIPT_URL can have.
ScriptUrls == {Undefined, "", "https://script.google.com/exec"}

VARIABLES
    responses,         \* useExclusiveRanking: useState({})
    finalComment,      \* App: useState("")
    submitted,         \* App: useState(false)
    loading,           \* App: useState(false)
    validationErrors,  \* App: useState([])
    submissionError,   \* App: useState("")
    elementId,         \* handleSubmit: const elementId (Undefined: not computed)
    scriptUrl,         \* import.meta.env.VITE_GOOGLE_SCRIPT_URL
    pc,                \* where the pending submitForm call is suspended
    attempt,           \* submitForm: loop counter of the pending call
    timers,            \* number of pending timeout timers (setTimeout of submitForm)
    lastError,         \* submitForm: let lastError
    maxRetries,        \* submitForm: options.maxRetries of the call
    inFlight,          \* number of fetch requests that have not settled
    backoffMs,         \* submitForm: delayMs of the pending delay(), 0 if none
    mock,              \* TRUE when fetch and onRetry are recording doubles
    log,               \* what the doubles recorded of the latest call
    otherText,         \* App: useState({}), {qId: text} of the typed "Other" answers
    maxLength,         \* sanitizeTextInput: the maxLength it is called with
    cleanText,         \* what the last sanitizeTextInput call returned
    payload,           \* what the last normalizeFormData call returned
    described,         \* the last getErrorMessage call made on its own
    lastCall,          \* history: the last updateRank call made on the hook
    prevResponses,     \* history: responses before that call
    docResponses,      \* responses of the hook printed in IMPLEMENTATION_SUMMARY.md
    noUsed             \* history: one of the calls made on both hooks had rank "No"

vars == <<responses, finalComment, submitted, loading, validationErrors,
          submissionError, elementId, scriptUrl, pc, attempt, timers,
          lastError, maxRetries, inFlight, backoffMs, mock, log,
          otherText, maxLength, cleanText, payload, described,
          lastCall, prevResponses, docResponses, noUsed>>

\* How submitForm is called: fixed for the life of the page.
callVars == <<scriptUrl, maxRetries, mock>>

appVars == <<finalComment, submitted, loading, validationErrors,
             submissionError, elementId, callVars, pc, attempt, timers,
             lastError, inFlight, backoffMs, log>>

submitVars == <<submitted, loading, validationErrors, submissionError,
                elementId, pc, attempt, timers, lastError, inFlight,
                backoffMs, log>>

histVars == <<lastCall, prevResponses>>

pairVars == <<docResponses, noUsed>>

textVars == <<otherText, maxLength, cleanText, payload, described>>

NoCall == [qId |-> Undefined, optIdx |-> -1, rank |-> Undefined, twice |-> FALSE]

\* useState({}): no question has any key.
EmptyResponses == [q \in QIds |-> [k \in OptIdxs(q) |-> Undefined]]

\* ------------------------------------------------- useExclusiveRanking
\* updateRank without the scan that takes the rank from the other options.
updateRankNoClear(prevR, qId, optIdx, rank) ==
    [prevR EXCEPT ![qId][optIdx] = rank]

\* updateRank whose scan empties every other option that holds any rank.
updateRankClearAll(prevR, qId, optIdx, rank) ==
    IF rank = ""
    THEN [prevR EXCEPT ![qId][optIdx] = ""]
    ELSE [prevR EXCEPT ![qId] =
            [k \in DOMAIN prevR[qId] |->
                IF k = optIdx THEN rank
                ELSE IF prevR[qId][k] # Undefined THEN "" ELSE prevR[qId][k]]]

\* updateRank whose clearing branch rebuilds the question from nothing.
updateRankClearQuestion(prevR, qId, optIdx, rank) ==
    IF rank = ""
    THEN [prevR EXCEPT ![qId] =
            [k \in DOMAIN prevR[qId] |-> IF k = optIdx THEN "" ELSE Undefined]]
    ELSE [prevR EXCEPT ![qId] =
            [k \in DOMAIN prevR[qId] |->
                IF k = optIdx THEN rank
                ELSE IF prevR[qId][k] = rank THEN "" ELSE prevR[qId][k]]]

\* updateRank that flips the option: a rank it already holds is cleared.
updateRankToggle(prevR, qId, optIdx, rank) ==
    IF rank = "" \/ prevR[qId][optIdx] = rank
    THEN [prevR EXCEPT ![qId][optIdx] = ""]
    ELSE [prevR EXCEPT ![qId] =
            [k \in DOMAIN prevR[qId] |->
                IF k = optIdx THEN rank
                ELSE IF prevR[qId][k] = rank THEN "" ELSE prevR[qId][k]]]

\* updateRank whose scan runs over the options of every question.
updateRankAllQuestions(prevR, qId, optIdx, rank) ==
    IF rank = ""
    THEN [prevR EXCEPT ![qId][optIdx] = ""]
    ELSE [q \in DOMAIN prevR |->
            [k \in DOMAIN prevR[q] |->
                IF q = qId /\ k = optIdx THEN rank
                ELSE IF prevR[q][k] = rank THEN "" ELSE prevR[q][k]]]

\* The setResponses updater of updateRank(qId, optIdx, rank).
updateRank(prevR, qId, optIdx, rank) ==
    IF rank = ""
    THEN [prevR EXCEPT ![qId][optIdx] = ""]
    ELSE [prevR EXCEPT ![qId] =
            [k \in DOMAIN prevR[qId] |->
                IF k = optIdx THEN rank
                ELSE IF prevR[qId][k] = rank THEN "" ELSE prevR[qId][k]]]

\* updateRank of the hook printed in IMPLEMENTATION_SUMMARY.md, whose clearing
\* of a key is a delete.
updateRankDocDeletes(prevR, qId, optIdx, rank) ==
    IF rank = ""
    THEN [prevR EXCEPT ![qId][optIdx] = Undefined]
    ELSE [prevR EXCEPT ![qId] =
            [k \in DOMAIN prevR[qId] |->
                IF k = optIdx THEN rank
                ELSE IF rank # "No" /\ prevR[qId][k] = rank THEN "" ELSE prevR[qId][k]]]

\* updateRank of the hook printed in IMPLEMENTATION_SUMMARY.md: the scan for
\* another option with the same rank is inside `if (rank !== "No")`.
updateRankDoc(prevR, qId, optIdx, rank) ==
    IF rank = ""
    THEN [prevR EXCEPT ![qId][optIdx] = ""]
    ELSE [prevR EXCEPT ![qId] =
            [k \in DOMAIN prevR[qId] |->
                IF k = optIdx THEN rank
                ELSE IF rank # "No" /\ prevR[qId][k] = rank THEN "" ELSE prevR[qId][k]]]

\* ------------------------------------------------------ formValidation
\* hasAnyRank that counts numeric ranks only, so that "No" does not answer.
hasAnyNumericRank(qData) ==
    \E k \in DOMAIN qData : qData[k] \notin {Undefined, "", "No"}

\* rank && rank !== "": undefined and "" are the falsy values a key can hold.
hasAnyRank(qData) ==
    \E k \in DOMAIN qData : qData[k] # Undefined /\ qData[k] # ""

\* String.prototype.trim on a sequence of characters.
RECURSIVE trimStart(_)
trimStart(s) ==
    IF s # <<>> /\ Head(s) \in Whitespace THEN trimStart(Tail(s)) ELSE s

RECURSIVE trimEnd(_)
trimEnd(s) ==
    IF s # <<>> /\ s[Len(s)] \in Whitespace
    THEN trimEnd(SubSeq(s, 1, Len(s) - 1)) ELSE s

trim(s) == trimEnd(trimStart(s))

questionError(qs, idx) == [type |-> "question", qId |-> qs[idx].id, qIdx |-> idx - 1]
commentError == [type |-> "final-comment"]

\* validateForm whose comment check is !finalComment alone, without trim().
validateFormNoTrim(qs, resp, comment) ==
    LET pushed[n \in 0..Len(qs)] ==
            IF n = 0 THEN <<>>
            ELSE IF ~hasAnyRank(resp[qs[n].id])
                 THEN Append(pushed[n - 1], questionError(qs, n))
                 ELSE pushed[n - 1]
        errors == IF comment = <<>>
                  THEN Append(pushed[Len(qs)], commentError)
                  ELSE pushed[Len(qs)]
    IN [isValid |-> Len(errors) = 0, errors |-> errors]

\* validateForm(questions, responses, finalComment); the error's message
\* (a preview of the question text) is presentation and is left out.
validateForm(qs, resp, comment) ==
    LET pushed[n \in 0..Len(qs)] ==
            IF n = 0 THEN <<>>
            ELSE IF ~hasAnyRank(resp[qs[n].id])
                 THEN Append(pushed[n - 1], questionError(qs, n))
                 ELSE pushed[n - 1]
        errors == IF comment = <<>> \/ trim(comment) = <<>>
                  THEN Append(pushed[Len(qs)], commentError)
                  ELSE pushed[Len(qs)]
    IN [isValid |-> Len(errors) = 0, errors |-> errors]

\* errors.some(e => e.type === t)
someType(errors, t) == \E i \in 1..Len(errors) : errors[i].type = t

\* errors.find(e => e.type === t), where some element has that type.
findType(errors, t) ==
    errors[CHOOSE i \in 1..Len(errors) :
              /\ errors[i].type = t
              /\ \A j \in 1..(i - 1) : errors[j].type # t]

\* getFirstUnansweredElementId that answers for the error at the head of the
\* list, whatever its type.
getHeadElementId(errors) ==
    IF errors = <<>> THEN Null
    ELSE IF errors[1].type = "question" THEN "question-" \o errors[1].qId
    ELSE "final-comments"

getFirstUnansweredElementId(errors) ==
    IF someType(errors, "question")
    THEN "question-" \o findType(errors, "question").qId
    ELSE IF someType(errors, "final-comment") THEN "final-comments"
    ELSE Null

\* -------------------------------------------------------- sanitization
\* A text is a sequence of one-character strings.
chars(str) == [k \in 1..Len(str) |-> SubSeq(str, k, k)]

UpperCase == chars("ABCDEFGHIJKLMNOPQRSTUVWXYZ")
LowerCase == chars("abcdefghijklmnopqrstuvwxyz")

\* The i flag of the pattern: letters are compared without case.
toLowerCase(c) ==
    IF \E k \in 1..Len(UpperCase) : UpperCase[k] = c
    THEN LowerCase[CHOOSE k \in 1..Len(UpperCase) : UpperCase[k] = c]
    ELSE c

\* The alternatives of /<script|<iframe|javascript:|onerror=/gi, in order.
Patterns ==
    << chars("<script"), chars("<iframe"), chars("javascript:"), chars("onerror=") >>

matchesAt(text, i, pattern) ==
    /\ i + Len(pattern) - 1 <= Len(text)
    /\ \A k \in 1..Len(pattern) : toLowerCase(text[i + k - 1]) = pattern[k]

\* Length of the first alternative that matches at position i, 0 if none.
matchLength(text, i) ==
    LET hits == {k \in 1..Len(Patterns) : matchesAt(text, i, Patterns[k])}
    IN IF hits = {} THEN 0
       ELSE Len(Patterns[CHOOSE k \in hits : \A h \in hits : k <= h])

\* text.replace(/.../gi, ""): one scan from the left; a match is dropped and
\* the scan goes on behind it, over the input and never over the output.
RECURSIVE replace(_, _)
replace(text, i) ==
    IF i > Len(text) THEN <<>>
    ELSE IF matchLength(text, i) > 0 THEN replace(text, i + matchLength(text, i))
    ELSE <<text[i]>> \o replace(text, i + 1)

\* text.slice(0, end)
slice(text, end) ==
    LET stop == IF end < 0
                THEN (IF Len(text) + end < 0 THEN 0 ELSE Len(text) + end)
                ELSE (IF end > Len(text) THEN Len(text) ELSE end)
    IN SubSeq(text, 1, stop)

\* Every text the model passes is a string, so `!text` is the empty string.
sanitizeTextInput(text, maxLen) ==
    IF text = <<>> THEN <<>>
    ELSE replace(slice(trim(text), maxLen), 1)

sanitizeCommentInput(text) == sanitizeTextInput(text, MAX_COMMENT_LENGTH)

\* sanitizeTextInput not called yet.
NotCalled == [called |-> FALSE, value |-> <<>>]

\* ----------------------------------------------- formSubmissionService
\* useState({}) of otherText: no key.
EmptyOtherText == [q \in {} |-> <<>>]

\* normalizeFormData not called yet.
NoPayload ==
    [timestamp |-> Undefined, responses |-> EmptyResponses,
     otherText |-> EmptyOtherText, finalComment |-> <<>>]

\* obj[key], Undefined for a key the object does not have.
get(obj, key) == IF key \in DOMAIN obj THEN obj[key] ELSE Undefined

\* normalizeFormData that fills only the entries that are undefined or null
\* (`??` in place of `||`).
normalizeFormDataNullish(qs, resp, other, comment, now) ==
    [timestamp |-> now,
     responses |->
        [qId \in {qs[k].id : k \in 1..Len(qs)} |->
            LET q == qs[CHOOSE k \in 1..Len(qs) : qs[k].id = qId]
                numOptions == Len(q.options)
            IN [i \in 0..(numOptions - 1) |->
                   IF get(resp[qId], i) = Undefined THEN "No" ELSE get(resp[qId], i)]],
     otherText |-> other,
     finalComment |-> comment]

\* `now` is new Date().toISOString() at the time of the call.
normalizeFormData(qs, resp, other, comment, now) ==
    [timestamp |-> now,
     responses |->
        [qId \in {qs[k].id : k \in 1..Len(qs)} |->
            LET q == qs[CHOOSE k \in 1..Len(qs) : qs[k].id = qId]
                numOptions == Len(q.options)
                qData == IF qId \in DOMAIN resp THEN resp[qId] ELSE <<>>
            IN [i \in 0..(numOptions - 1) |->
                   IF get(qData, i) \in {Undefined, ""} THEN "No" ELSE get(qData, i)]],
     otherText |-> other,
     finalComment |-> comment]

\* An error message is a sequence of words; message.includes(marker) looks
\* for the marker's words as a contiguous run.
includes(message, marker) ==
    \E i \in 1..(Len(message) - Len(marker) + 1) :
        SubSeq(message, i, i + Len(marker) - 1) = marker

\* What fetch rejects with.  An abort carries the name AbortError; a
\* connectivity fault is a TypeError; the message texts are the browser's.
AbortError == [name |-> "AbortError", message |-> <<"The", "operation", "was", "aborted.">>]
FetchFailures ==
    { [name |-> "TypeError", message |-> <<"Failed", "to", "fetch">>],
      [name |-> "TypeError", message |-> <<"NetworkError", "when", "attempting", "to", "fetch", "resource.">>] }

\* let lastError; before the first failure (no error, hence no message).
NoError == [name |-> Undefined, message |-> <<>>]

\* throw new Error("Google Apps Script URL is not configured")
ConfigError ==
    [name |-> "Error",
     message |-> <<"Google", "Apps", "Script", "URL", "is", "not", "configured">>]

\* throw new Error(`Form submission failed after ${maxRetries} attempts: ${lastError?.message || "Unknown error"}`)
ExhaustedError(last) ==
    [name |-> "Error",
     message |-> <<"Form", "submission", "failed", "after", ToString(maxRetries), "attempts:">>
                    \o (IF last.message = <<>>
                        THEN <<"Unknown", "error">> ELSE last.message)]

MsgTimeout == "The server took too long to respond. Please check your connection and try again."
MsgNetwork == "Unable to connect to the server. Please check your internet connection."
MsgConfig == "Form is not properly configured. Please contact support."
MsgGeneric == "An error occurred while submitting your response. Please try again."

\* getErrorMessage not called yet.
NotDescribed == [called |-> FALSE, error |-> NoError, value |-> ""]

\* getErrorMessage that looks for the network marker before the timeout one.
getErrorMessageNetworkFirst(error) ==
    LET message == error.message
    IN IF includes(message, <<"Network", "error">>) THEN MsgNetwork
       ELSE IF includes(message, <<"timeout">>) THEN MsgTimeout
       ELSE IF includes(message, <<"not", "configured">>) THEN MsgConfig
       ELSE MsgGeneric

getErrorMessage(error) ==
    LET message == error.message
    IN IF includes(message, <<"timeout">>) THEN MsgTimeout
       ELSE IF includes(message, <<"Network", "error">>) THEN MsgNetwork
       ELSE IF includes(message, <<"not", "configured">>) THEN MsgConfig
       ELSE MsgGeneric

\* errorMessage without the AbortError case.
errorMessageNoAbort(error) ==
    IF error.name = "TypeError"
    THEN <<"Network", "error", "-", "unable", "to", "reach", "server">>
    ELSE error.message

\* let errorMessage: the message of the error handed to onRetry.
errorMessage(error) ==
    IF error.name = "AbortError"
    THEN <<"Request", "timeout", "after", ToString(timeout) \o "ms">>
    ELSE IF error.name = "TypeError"
    THEN <<"Network", "error", "-", "unable", "to", "reach", "server">>
    ELSE error.message

\* What recording doubles hold before a call: the number of fetch calls, the
\* errors fetch rejected with, the arguments of each onRetry call, the delays
\* that were waited out, and how the promise of submitForm settled.
EmptyLog ==
    [fetches |-> 0, bodies |-> <<>>, failures |-> <<>>, retries |-> <<>>,
     waits |-> <<>>, outcome |-> "none", error |-> <<>>]

\* The doubles record; the browser's fetch and App's console.log keep nothing.
record(entry) == IF mock THEN entry ELSE log

\* ------------------------------------------------------------------ App
InitService ==
    /\ pc = "idle"
    /\ attempt = 0
    /\ timers = 0
    /\ lastError = NoError
    /\ inFlight = 0
    /\ backoffMs = 0
    /\ log = EmptyLog

\* No "Other" answer typed, no sanitizeTextInput or normalizeFormData call made.
InitText ==
    /\ otherText = EmptyOtherText
    /\ maxLength = MAX_TEXT_LENGTH
    /\ cleanText = NotCalled
    /\ payload = NoPayload
    /\ described = NotDescribed

Init ==
    /\ responses = EmptyResponses
    /\ finalComment = <<>>
    /\ submitted = FALSE
    /\ loading = FALSE
    /\ validationErrors = <<>>
    /\ submissionError = ""
    /\ elementId = Undefined
    /\ scriptUrl \in ScriptUrls
    /\ maxRetries = DEFAULT_MAX_RETRIES
    /\ mock = FALSE
    /\ InitService
    /\ InitText
    /\ lastCall = NoCall
    /\ prevResponses = EmptyResponses
    /\ docResponses = EmptyResponses
    /\ noUsed = FALSE

\* Timers of earlier attempts that were never cleared: every pending timer
\* but the one of the attempt in flight.
staleTimers == timers - (IF pc = "fetch" THEN 1 ELSE 0)

\* RankCheckboxChange that is still wired after the thank-you screen replaced
\* the form.
RankCheckboxChangeAfterSubmit(qId, optIdx, r) ==
    /\ LET currentRank == IF responses[qId][optIdx] \in {Undefined, ""}
                          THEN "" ELSE responses[qId][optIdx]
           checked == ~(currentRank = r)
       IN responses' = updateRank(responses, qId, optIdx, IF checked THEN r ELSE "")
    /\ UNCHANGED <<appVars, histVars, pairVars, textVars>>

\* onChange of the checkbox of rank r on option optIdx of question qId:
\* the box is checked iff the option holds r, and a click flips it.
RankCheckboxChange(qId, optIdx, r) ==
    /\ ~submitted
    /\ LET currentRank == IF responses[qId][optIdx] \in {Undefined, ""}
                          THEN "" ELSE responses[qId][optIdx]
           checked == ~(currentRank = r)
       IN responses' = updateRank(responses, qId, optIdx, IF checked THEN r ELSE "")
    /\ UNCHANGED <<appVars, histVars, pairVars, textVars>>

\* onChange of the final-comment textarea.
SetFinalComment(text) ==
    /\ ~submitted
    /\ finalComment' = text
    /\ UNCHANGED <<responses, submitVars, callVars, histVars, pairVars, textVars>>

\* SubmitFailed whose catch block records no message.
SubmitFailedNoMessage(error) ==
    /\ submissionError' = ""
    /\ loading' = FALSE
    /\ pc' = "idle"
    /\ attempt' = 0
    /\ lastError' = NoError

\* SubmitFailed without the finally block.
SubmitFailedNoFinally(error) ==
    /\ submissionError' = getErrorMessage(error)
    /\ loading' = loading
    /\ pc' = "idle"
    /\ attempt' = 0
    /\ lastError' = NoError

\* The catch and finally blocks of handleSubmit, entered with `error`
\* (window.scrollTo moves the page and writes no state).
SubmitFailed(error) ==
    /\ submissionError' = getErrorMessage(error)
    /\ loading' = FALSE
    /\ pc' = "idle"
    /\ attempt' = 0
    /\ lastError' = NoError

\* What new Date().toISOString() can return.
Instants == {"2026-01-01T00:00:00.000Z", "2026-01-01T00:00:01.000Z"}

\* handleSubmit's `const data`: the "Other" answers and the comment are
\* sanitized, then normalizeFormData is called, at the instant `now`.
data(now) ==
    LET sanitizedOtherText ==
            [q \in DOMAIN otherText |-> sanitizeTextInput(otherText[q], MAX_TEXT_LENGTH)]
        sanitizedFinalComment == sanitizeCommentInput(finalComment)
    IN normalizeFormData(questions, responses, sanitizedOtherText,
                         sanitizedFinalComment, now)

\* handleSubmit builds `data` before it calls submitForm.  The value is held
\* in `payload` when the doubles record; in the browser nothing observes it.
BuildData == \E now \in Instants : payload' = IF mock THEN data(now) ELSE payload

\* StartSubmission without submitForm's `if (!scriptUrl)` check: the first
\* attempt is made whatever the URL is.
StartSubmissionNoUrlCheck ==
    /\ validationErrors' = <<>>
    /\ elementId' = Undefined
    /\ submissionError' = ""
    /\ loading' = TRUE
    /\ pc' = "fetch"
    /\ attempt' = 1
    /\ timers' = timers + 1
    /\ inFlight' = inFlight + 1
    /\ lastError' = NoError
    /\ log' = record([EmptyLog EXCEPT !.fetches = 1, !.bodies = <<payload'>>,
                                      !.outcome = "pending"])

\* StartSubmission whose attempt counter lives outside the call: after a call
\* that raised, the next call resumes at the last attempt number.
StartSubmissionResumes ==
    IF scriptUrl \in {Undefined, ""}
    THEN \* submitForm throws before its loop
         /\ validationErrors' = <<>>
         /\ elementId' = Undefined
         /\ SubmitFailed(ConfigError)
         /\ log' = record([EmptyLog EXCEPT !.outcome = "rejected",
                                           !.error = ConfigError.message])
         /\ UNCHANGED <<timers, inFlight>>
    ELSE IF ~(1 <= maxRetries)
    THEN \* the loop body never runs; submitForm throws after the loop
         /\ validationErrors' = <<>>
         /\ elementId' = Undefined
         /\ SubmitFailed(ExhaustedError(NoError))
         /\ log' = record([EmptyLog EXCEPT
                              !.outcome = "rejected",
                              !.error = ExhaustedError(NoError).message])
         /\ UNCHANGED <<timers, inFlight>>
    ELSE \* first attempt: timer armed, fetch in flight
         /\ validationErrors' = <<>>
         /\ elementId' = Undefined
         /\ submissionError' = ""
         /\ loading' = TRUE
         /\ pc' = "fetch"
         /\ attempt' = IF log.outcome = "rejected" THEN maxRetries ELSE 1
         /\ timers' = timers + 1
         /\ inFlight' = inFlight + 1
         /\ lastError' = NoError
         /\ log' = record([EmptyLog EXCEPT !.fetches = 1, !.bodies = <<payload'>>,
                                           !.outcome = "pending"])


\* handleSubmit past its validation: the state is reset, loading is set, the
\* payload is built and submitForm runs up to its first await, or up to its
\* throw and then through handleSubmit's catch and finally blocks.
StartSubmission ==
    IF scriptUrl \in {Undefined, ""}
    THEN \* submitForm throws before its loop
         /\ validationErrors' = <<>>
         /\ elementId' = Undefined
         /\ SubmitFailed(ConfigError)
         /\ log' = record([EmptyLog EXCEPT !.outcome = "rejected",
                                           !.error = ConfigError.message])
         /\ UNCHANGED <<timers, inFlight>>
    ELSE IF ~(1 <= maxRetries)
    THEN \* the loop body never runs; submitForm throws after the loop
         /\ validationErrors' = <<>>
         /\ elementId' = Undefined
         /\ SubmitFailed(ExhaustedError(NoError))
         /\ log' = record([EmptyLog EXCEPT
                              !.outcome = "rejected",
                              !.error = ExhaustedError(NoError).message])
         /\ UNCHANGED <<timers, inFlight>>
    ELSE \* first attempt: timer armed, fetch in flight
         /\ validationErrors' = <<>>
         /\ elementId' = Undefined
         /\ submissionError' = ""
         /\ loading' = TRUE
         /\ pc' = "fetch"
         /\ attempt' = 1
         /\ timers' = timers + 1
         /\ inFlight' = inFlight + 1
         /\ lastError' = NoError
         /\ log' = record([EmptyLog EXCEPT !.fetches = 1, !.bodies = <<payload'>>,
                                           !.outcome = "pending"])

\* handleSubmit whose validation failure does not return from the handler.
HandleSubmitNoReturn ==
    /\ ~submitted
    /\ ~loading
    /\ BuildData
    /\ StartSubmission
    /\ UNCHANGED <<responses, finalComment, submitted, callVars, backoffMs,
                   histVars, pairVars, otherText, maxLength, cleanText, described>>

\* handleSubmit behind a button that stays enabled while loading.
HandleSubmitWhileLoading ==
    /\ ~submitted
    /\ LET v == validateForm(questions, responses, finalComment)
       IN IF ~v.isValid
          THEN /\ validationErrors' = v.errors
               /\ submissionError' = ""
               /\ elementId' = getFirstUnansweredElementId(v.errors)
               /\ UNCHANGED <<loading, pc, attempt, timers, lastError,
                              inFlight, log, payload>>
          ELSE BuildData /\ StartSubmission
    /\ UNCHANGED <<responses, finalComment, submitted, callVars, backoffMs,
                   histVars, pairVars, otherText, maxLength, cleanText, described>>

\* handleSubmit, from the click up to its first suspension.  The button is
\* rendered only while !submitted and is disabled while loading.  The payload
\* (sanitize, then normalizeFormData) is a local value built from responses,
\* otherText and finalComment without writing to any of them.
HandleSubmit ==
    /\ ~submitted
    /\ ~loading
    /\ LET v == validateForm(questions, responses, finalComment)
       IN IF ~v.isValid
          THEN /\ validationErrors' = v.errors
               /\ submissionError' = ""
               /\ elementId' = getFirstUnansweredElementId(v.errors)
               /\ UNCHANGED <<loading, pc, attempt, timers, lastError,
                              inFlight, log, payload>>
          ELSE BuildData /\ StartSubmission
    /\ UNCHANGED <<responses, finalComment, submitted, callVars, backoffMs,
                   histVars, pairVars, otherText, maxLength, cleanText, described>>

\* FetchResolved that also empties the form's answers after success.
FetchResolvedAndReset ==
    /\ pc = "fetch"
    /\ timers' = timers - 1
    /\ inFlight' = inFlight - 1
    /\ submitted' = TRUE
    /\ loading' = FALSE
    /\ pc' = "idle"
    /\ attempt' = 0
    /\ lastError' = NoError
    /\ log' = record([log EXCEPT !.outcome = "resolved"])
    /\ responses' = EmptyResponses
    /\ UNCHANGED <<finalComment, validationErrors, submissionError,
                   elementId, callVars, backoffMs, histVars, pairVars, textVars>>

\* fetch resolves: clearTimeout(timeoutId), return {success: true}, then
\* setSubmitted(true) and the finally block.
FetchResolved ==
    /\ pc = "fetch"
    /\ timers' = timers - 1
    /\ inFlight' = inFlight - 1
    /\ submitted' = TRUE
    /\ loading' = FALSE
    /\ pc' = "idle"
    /\ attempt' = 0
    /\ lastError' = NoError
    /\ log' = record([log EXCEPT !.outcome = "resolved"])
    /\ UNCHANGED <<responses, finalComment, validationErrors, submissionError,
                   elementId, callVars, backoffMs, histVars, pairVars, textVars>>

\* AttemptFailed whose delay is initialRetryDelay for every attempt.
AttemptFailedFixedDelay(error) ==
    LET failed == [log EXCEPT !.failures = Append(@, error)]
    IN IF attempt # maxRetries
       THEN /\ lastError' = error
            /\ log' = record([failed EXCEPT !.retries =
                                Append(@, [attempt |-> attempt,
                                           message |-> errorMessage(error),
                                           delayMs |-> initialRetryDelay])])
            /\ backoffMs' = initialRetryDelay
            /\ pc' = "backoff"
            /\ UNCHANGED <<submitted, loading, validationErrors, submissionError,
                           elementId, attempt>>
       ELSE /\ SubmitFailed(ExhaustedError(error))
            /\ log' = record([failed EXCEPT
                                !.retries = Append(@, [attempt |-> attempt,
                                                       message |-> errorMessage(error),
                                                       delayMs |-> 0]),
                                !.outcome = "rejected",
                                !.error = ExhaustedError(error).message])
            /\ UNCHANGED <<submitted, validationErrors, elementId, backoffMs>>

\* AttemptFailed that skips onRetry on the last attempt.
AttemptFailedQuietLast(error) ==
    LET failed == [log EXCEPT !.failures = Append(@, error)]
        delayMs == initialRetryDelay * attempt
    IN IF attempt # maxRetries
       THEN /\ lastError' = error
            /\ log' = record([failed EXCEPT !.retries =
                                Append(@, [attempt |-> attempt,
                                           message |-> errorMessage(error),
                                           delayMs |-> delayMs])])
            /\ backoffMs' = delayMs
            /\ pc' = "backoff"
            /\ UNCHANGED <<submitted, loading, validationErrors, submissionError,
                           elementId, attempt>>
       ELSE /\ SubmitFailed(ExhaustedError(error))
            /\ log' = record([failed EXCEPT
                                !.outcome = "rejected",
                                !.error = ExhaustedError(error).message])
            /\ UNCHANGED <<submitted, validationErrors, elementId, backoffMs>>

\* The catch block of submitForm's loop, entered with `error`; clearTimeout
\* is called with undefined, so no timer is cleared here.
AttemptFailed(error) ==
    LET failed == [log EXCEPT !.failures = Append(@, error)]
        isLastAttempt == attempt = maxRetries
        delayMs == initialRetryDelay * attempt
    IN IF ~isLastAttempt
       THEN \* onRetry(attempt, new Error(errorMessage), delayMs); await delay(delayMs)
            /\ lastError' = error
            /\ log' = record([failed EXCEPT !.retries =
                                Append(@, [attempt |-> attempt,
                                           message |-> errorMessage(error),
                                           delayMs |-> delayMs])])
            /\ backoffMs' = delayMs
            /\ pc' = "backoff"
            /\ UNCHANGED <<submitted, loading, validationErrors, submissionError,
                           elementId, attempt>>
       ELSE \* onRetry(attempt, new Error(errorMessage), 0); the loop ends and
            \* submitForm throws
            /\ SubmitFailed(ExhaustedError(error))
            /\ log' = record([failed EXCEPT
                                !.retries = Append(@, [attempt |-> attempt,
                                                       message |-> errorMessage(error),
                                                       delayMs |-> 0]),
                                !.outcome = "rejected",
                                !.error = ExhaustedError(error).message])
            /\ UNCHANGED <<submitted, validationErrors, elementId, backoffMs>>

\* fetch rejects on its own (connectivity): the attempt's timer stays armed.
FetchRejected(error) ==
    /\ pc = "fetch"
    /\ staleTimers < MaxStaleTimers
    /\ inFlight' = inFlight - 1
    /\ AttemptFailed(error)
    /\ UNCHANGED <<responses, finalComment, callVars, timers, histVars, pairVars, textVars>>

\* TimeoutFired that gives the attempt up without aborting its request.
TimeoutFiredNoAbort ==
    /\ pc = "fetch"
    /\ timers' = timers - 1
    /\ AttemptFailed(AbortError)
    /\ UNCHANGED <<responses, finalComment, callVars, inFlight, histVars, pairVars, textVars>>

\* The timeout timer of the attempt in flight fires: controller.abort()
\* rejects the fetch with an AbortError.
TimeoutFired ==
    /\ pc = "fetch"
    /\ timers' = timers - 1
    /\ inFlight' = inFlight - 1
    /\ AttemptFailed(AbortError)
    /\ UNCHANGED <<responses, finalComment, callVars, histVars, pairVars, textVars>>

\* The timer of an attempt that is over fires: abort() on a settled request.
StaleTimerFired ==
    /\ staleTimers > 0
    /\ timers' = timers - 1
    /\ UNCHANGED <<responses, finalComment, submitted, loading, validationErrors,
                   submissionError, elementId, callVars, pc, attempt,
                   lastError, inFlight, backoffMs, log, histVars, pairVars, textVars>>

\* BackoffElapsed whose loop does not advance the attempt counter.
BackoffElapsedSameAttempt ==
    /\ pc = "backoff"
    /\ attempt' = attempt
    /\ timers' = timers + 1
    /\ inFlight' = inFlight + 1
    /\ pc' = "fetch"
    /\ log' = record([log EXCEPT !.waits = Append(@, backoffMs),
                                 !.fetches = @ + 1,
                                 !.bodies = Append(@, payload)])
    /\ backoffMs' = 0
    /\ UNCHANGED <<responses, finalComment, submitted, loading, validationErrors,
                   submissionError, elementId, callVars, lastError, histVars, pairVars, textVars>>

\* BackoffElapsed that builds the body of the next request from the form as
\* it is when the wait ends, not from the `data` of the call.
BackoffElapsedRebuilds ==
    /\ pc = "backoff"
    /\ attempt' = attempt + 1
    /\ timers' = timers + 1
    /\ inFlight' = inFlight + 1
    /\ pc' = "fetch"
    /\ \E now \in Instants :
           log' = record([log EXCEPT !.waits = Append(@, backoffMs),
                                     !.fetches = @ + 1,
                                     !.bodies = Append(@, data(now))])
    /\ backoffMs' = 0
    /\ UNCHANGED <<responses, finalComment, submitted, loading, validationErrors,
                   submissionError, elementId, callVars, lastError, histVars, pairVars, textVars>>

\* delay(delayMs) elapses: the loop starts the next attempt.
BackoffElapsed ==
    /\ pc = "backoff"
    /\ attempt' = attempt + 1
    /\ timers' = timers + 1
    /\ inFlight' = inFlight + 1
    /\ pc' = "fetch"
    /\ log' = record([log EXCEPT !.waits = Append(@, backoffMs),
                                 !.fetches = @ + 1,
                                 !.bodies = Append(@, payload)])
    /\ backoffMs' = 0
    /\ UNCHANGED <<responses, finalComment, submitted, loading, validationErrors,
                   submissionError, elementId, callVars, lastError, histVars, pairVars, textVars>>

Next ==
    \/ \E q \in QIds : \E i \in OptIdxs(q) : \E r \in RankSet :
           RankCheckboxChange(q, i, r)
    \/ \E text \in Texts : SetFinalComment(text)
    \/ HandleSubmit
    \/ FetchResolved
    \/ \E error \in FetchFailures : FetchRejected(error)
    \/ TimeoutFired
    \/ StaleTimerFired
    \/ BackoffElapsed

Spec == Init /\ [][Next]_vars

\* ---------------------------------------- getErrorMessage on its own
\* Errors whose message is any run of at most MaxWords words: the markers'
\* words, a marker in another case, and a word of no meaning.  An error
\* without a message has the empty run (`error.message || ""`).
Words == {"timeout", "Timeout", "Network", "error", "not", "configured", "failed"}
Messages == UNION {[1..n -> Words] : n \in 0..MaxWords}
ErrorValues == {[name |-> "Error", message |-> m] : m \in Messages}

InitDescribe ==
    /\ responses = EmptyResponses
    /\ finalComment = <<>>
    /\ submitted = FALSE
    /\ loading = FALSE
    /\ validationErrors = <<>>
    /\ submissionError = ""
    /\ elementId = Undefined
    /\ scriptUrl = Undefined
    /\ maxRetries = DEFAULT_MAX_RETRIES
    /\ mock = FALSE
    /\ InitService
    /\ InitText
    /\ lastCall = NoCall
    /\ prevResponses = EmptyResponses
    /\ docResponses = EmptyResponses
    /\ noUsed = FALSE

\* getErrorMessage(error)
DescribeCall(error) ==
    /\ ~described.called
    /\ described' = [called |-> TRUE, error |-> error,
                     value |-> getErrorMessage(error)]
    /\ UNCHANGED <<responses, appVars, histVars, pairVars, otherText, maxLength, cleanText,
                   payload>>

NextDescribe == \E error \in ErrorValues : DescribeCall(error)

SpecDescribe == InitDescribe /\ [][NextDescribe]_vars

\* -------------------------------------- sanitizeTextInput on its own
\* Inputs are put together from at most MaxFragments fragments: the patterns,
\* in either case, pieces of them, and plain characters.
Fragments ==
    { chars("<script"), chars("<scr"), chars("ipt>"), chars("<IFRAME"),
      chars("javascript:"), chars("onerror="), <<" ">>, <<"a">> }

RECURSIVE join(_)
join(fragments) ==
    IF fragments = <<>> THEN <<>> ELSE Head(fragments) \o join(Tail(fragments))

SanitizeInputs ==
    {join(fs) : fs \in UNION {[1..n -> Fragments] : n \in 0..MaxFragments}}

SliceLengths == (0..MaxSlice) \cup {MAX_TEXT_LENGTH}

InitSanitize ==
    /\ responses = EmptyResponses
    /\ finalComment \in SanitizeInputs
    /\ submitted = FALSE
    /\ loading = FALSE
    /\ validationErrors = <<>>
    /\ submissionError = ""
    /\ elementId = Undefined
    /\ scriptUrl = Undefined
    /\ maxRetries = DEFAULT_MAX_RETRIES
    /\ mock = FALSE
    /\ InitService
    /\ otherText = EmptyOtherText
    /\ maxLength \in SliceLengths
    /\ cleanText = NotCalled
    /\ payload = NoPayload
    /\ described = NotDescribed
    /\ lastCall = NoCall
    /\ prevResponses = EmptyResponses
    /\ docResponses = EmptyResponses
    /\ noUsed = FALSE

\* sanitizeTextInput(finalComment, maxLength)
SanitizeCall ==
    /\ ~cleanText.called
    /\ cleanText' = [called |-> TRUE,
                     value |-> sanitizeTextInput(finalComment, maxLength)]
    /\ UNCHANGED <<responses, appVars, histVars, pairVars, otherText, maxLength, payload,
                   described>>

NextSanitize == SanitizeCall

SpecSanitize == InitSanitize /\ [][NextSanitize]_vars

\* ------------------------------------------- the payload on its own
\* The form is edited, then handleSubmit's sanitize and normalize lines run
\* on what was entered, whether or not it would pass validation.
OtherTexts == {<<"a">>}

\* onChange of the "Other (please specify)" input of question qId.
SetOtherText(qId, text) ==
    /\ ~submitted
    /\ otherText' = [q \in DOMAIN otherText \cup {qId} |->
                        IF q = qId THEN text ELSE otherText[q]]
    /\ UNCHANGED <<responses, appVars, histVars, pairVars, maxLength, cleanText, payload,
                   described>>

\* const sanitizedOtherText = ...; const sanitizedFinalComment = ...;
\* const data = normalizeFormData(...)
NormalizeCall(now) ==
    /\ payload.timestamp = Undefined
    /\ payload' = data(now)
    /\ UNCHANGED <<responses, appVars, histVars, pairVars, otherText, maxLength, cleanText,
                   described>>

InitNormalize ==
    /\ Init
    /\ scriptUrl = Undefined

NextNormalize ==
    \/ \E q \in QIds : \E i \in OptIdxs(q) : \E r \in RankSet :
           payload.timestamp = Undefined /\ RankCheckboxChange(q, i, r)
    \/ \E text \in Texts : payload.timestamp = Undefined /\ SetFinalComment(text)
    \/ \E q \in QIds : \E text \in OtherTexts :
           payload.timestamp = Undefined /\ SetOtherText(q, text)
    \/ \E now \in Instants : NormalizeCall(now)

SpecNormalize == InitNormalize /\ [][NextNormalize]_vars

\* --------------------------------------------- submitForm under doubles
\* The submit of a filled-in form with fetch and onRetry replaced by
\* recording doubles, for every options.maxRetries up to MaxRetriesArg.
FilledResponses ==
    [q \in QIds |-> [k \in OptIdxs(q) |-> IF k = 0 THEN "1" ELSE Undefined]]

\* What the fetch double rejects with: the browser's faults and an error of
\* neither special kind.
MockFailures ==
    FetchFailures \cup {[name |-> "Error", message |-> <<"Quota", "exceeded">>]}

InitSubmit ==
    /\ responses = FilledResponses
    /\ finalComment = <<"a">>
    /\ submitted = FALSE
    /\ loading = FALSE
    /\ validationErrors = <<>>
    /\ submissionError = ""
    /\ elementId = Undefined
    /\ scriptUrl \in ScriptUrls
    /\ maxRetries \in 0..MaxRetriesArg
    /\ mock = TRUE
    /\ InitService
    /\ InitText
    /\ lastCall = NoCall
    /\ prevResponses = EmptyResponses
    /\ docResponses = EmptyResponses
    /\ noUsed = FALSE

NextSubmit ==
    \/ HandleSubmit
    \/ FetchResolved
    \/ \E error \in MockFailures : FetchRejected(error)
    \/ TimeoutFired
    \/ StaleTimerFired
    \/ BackoffElapsed

SpecSubmit == InitSubmit /\ [][NextSubmit]_vars

\* The same, in a running event loop: a request in flight settles (at the
\* latest its timeout timer fires and aborts it) and a delay() timer fires.
RequestSettles ==
    \/ FetchResolved
    \/ \E error \in MockFailures : FetchRejected(error)
    \/ TimeoutFired

SpecSubmitFair ==
    /\ InitSubmit
    /\ [][NextSubmit]_vars
    /\ WF_vars(RequestSettles)
    /\ WF_vars(BackoffElapsed)

\* ------------------------------------------- the form under doubles
\* The whole submit of a filled-in form, with fetch and onRetry replaced by
\* recording doubles, while the user goes on editing: the first option of
\* the first question, its "Other" answer and the comment, which is empty,
\* plain, or one of the sanitizer's patterns.
PayloadComments == {<<>>, <<"a">>, chars("<script")}

InitPayload ==
    /\ responses = FilledResponses
    /\ finalComment = <<"a">>
    /\ submitted = FALSE
    /\ loading = FALSE
    /\ validationErrors = <<>>
    /\ submissionError = ""
    /\ elementId = Undefined
    /\ scriptUrl = "https://script.google.com/exec"
    /\ maxRetries = DEFAULT_MAX_RETRIES
    /\ mock = TRUE
    /\ InitService
    /\ InitText
    /\ lastCall = NoCall
    /\ prevResponses = EmptyResponses
    /\ docResponses = EmptyResponses
    /\ noUsed = FALSE

NextPayload ==
    \/ \E r \in RankSet : RankCheckboxChange(questions[1].id, 0, r)
    \/ \E text \in PayloadComments : SetFinalComment(text)
    \/ \E text \in OtherTexts : SetOtherText(questions[1].id, text)
    \/ HandleSubmit
    \/ FetchResolved
    \/ \E error \in FetchFailures : FetchRejected(error)
    \/ TimeoutFired
    \/ StaleTimerFired
    \/ BackoffElapsed

SpecPayload == InitPayload /\ [][NextPayload]_vars

\* ------------------------------------------------ the hook on its own
\* Any sequence of updateRank calls, as the hook's API allows; the call and
\* the state it was made in are kept for the properties below.
InitStore ==
    /\ Init
    /\ scriptUrl = Undefined

Assign(qId, optIdx, rank) ==
    /\ responses' = updateRank(responses, qId, optIdx, rank)
    /\ prevResponses' = responses
    /\ lastCall' = [qId |-> qId, optIdx |-> optIdx, rank |-> rank,
                    twice |-> /\ lastCall.qId = qId
                              /\ lastCall.optIdx = optIdx
                              /\ lastCall.rank = rank]
    /\ UNCHANGED <<appVars, textVars, pairVars>>

NextStore ==
    \E q \in QIds : \E i \in OptIdxs(q) : \E r \in RankSet \cup {""} : Assign(q, i, r)

SpecStore == InitStore /\ [][NextStore]_vars

\* ------------------------------------------------ the two hooks side by side
\* The hook the repository ships and the hook printed in its implementation
\* summary, both from useState({}), given the same updateRank calls.
InitPair ==
    /\ Init
    /\ scriptUrl = Undefined

UpdateRankBoth(qId, optIdx, rank) ==
    /\ responses' = updateRank(responses, qId, optIdx, rank)
    /\ docResponses' = updateRankDoc(docResponses, qId, optIdx, rank)
    /\ noUsed' = (noUsed \/ rank = "No")
    /\ UNCHANGED <<appVars, textVars, histVars>>

NextPair ==
    \E q \in QIds : \E i \in OptIdxs(q) : \E r \in RankSet \cup {""} :
        UpdateRankBoth(q, i, r)

SpecPair == InitPair /\ [][NextPair]_vars

\* ------------------------------- getFirstUnansweredElementId on its own
\* Every error list of at most MaxErrors errors, in any order.
ErrorKinds == {questionError(questions, k) : k \in 1..Len(questions)} \cup {commentError}
ErrorLists == UNION {[1..n -> ErrorKinds] : n \in 0..MaxErrors}

InitFocus ==
    /\ responses = EmptyResponses
    /\ finalComment = <<>>
    /\ submitted = FALSE
    /\ loading = FALSE
    /\ validationErrors \in ErrorLists
    /\ submissionError = ""
    /\ elementId = Undefined
    /\ scriptUrl = Undefined
    /\ maxRetries = DEFAULT_MAX_RETRIES
    /\ mock = FALSE
    /\ InitService
    /\ InitText
    /\ lastCall = NoCall
    /\ prevResponses = EmptyResponses
    /\ docResponses = EmptyResponses
    /\ noUsed = FALSE

\* const elementId = getFirstUnansweredElementId(errors); scrollToFirstError(elementId)
FocusFirstError ==
    /\ elementId = Undefined
    /\ elementId' = getFirstUnansweredElementId(validationErrors)
    /\ UNCHANGED <<responses, finalComment, submitted, loading, validationErrors,
                   submissionError, callVars, pc, attempt, timers, lastError,
                   inFlight, backoffMs, log, histVars, pairVars, textVars>>

NextFocus == FocusFirstError

SpecFocus == InitFocus /\ [][NextFocus]_vars

\* ======================================================== properties
\* The question and option the last updateRank call was made on.
CallMade == lastCall # NoCall
OthersOf(qId, optIdx) == DOMAIN responses[qId] \ {optIdx}

\* C1 -- Exclusivity: in every state reached by updateRank calls from the
\* empty state, each numeric rank is held by at most one option of a question.
C1_Exclusive ==
    \A q \in QIds : \A L \in NumericRanks :
        Cardinality({k \in DOMAIN responses[q] : responses[q][k] = L}) <= 1

\* C1 witness: a numeric rank was given to an option while another option of
\* the question held it, and now exactly the new option holds it.
C1_Witness ==
    /\ CallMade
    /\ lastCall.rank \in NumericRanks
    /\ \E k \in OthersOf(lastCall.qId, lastCall.optIdx) :
           prevResponses[lastCall.qId][k] = lastCall.rank
    /\ responses[lastCall.qId][lastCall.optIdx] = lastCall.rank

\* C2 -- "No" is exempt from exclusivity: updateRank(q, j, "No") changes no
\* entry of q other than option j, so two options can hold "No" together.
C2_NoIsExempt ==
    (CallMade /\ lastCall.rank = "No") =>
        \A k \in OthersOf(lastCall.qId, lastCall.optIdx) :
            responses[lastCall.qId][k] = prevResponses[lastCall.qId][k]

\* C3 -- A numeric updateRank(q, j, L) leaves j holding L, empties every other
\* option of q that held L and keeps every other option's different label.
C3_Displaces ==
    (CallMade /\ lastCall.rank \in NumericRanks) =>
        /\ responses[lastCall.qId][lastCall.optIdx] = lastCall.rank
        /\ \A k \in OthersOf(lastCall.qId, lastCall.optIdx) :
               IF prevResponses[lastCall.qId][k] = lastCall.rank
               THEN responses[lastCall.qId][k] = ""
               ELSE responses[lastCall.qId][k] = prevResponses[lastCall.qId][k]

\* C3 witness: the call displaced a holder, which is now "".
C3_Witness ==
    /\ CallMade
    /\ lastCall.rank \in NumericRanks
    /\ \E k \in OthersOf(lastCall.qId, lastCall.optIdx) :
           /\ prevResponses[lastCall.qId][k] = lastCall.rank
           /\ responses[lastCall.qId][k] = ""
    /\ \E q \in QIds \ {lastCall.qId} : hasAnyRank(responses[q])

\* C4 -- Clearing touches one entry: updateRank(q, i, "") sets (q, i) to ""
\* and every other entry, of q and of the other questions, keeps its value.
C4_ClearOneEntry ==
    (CallMade /\ lastCall.rank = "") =>
        /\ responses[lastCall.qId][lastCall.optIdx] = ""
        /\ \A q \in QIds : \A k \in DOMAIN responses[q] :
               (q # lastCall.qId \/ k # lastCall.optIdx) =>
                   responses[q][k] = prevResponses[q][k]

\* C4 witness: a ranked option was cleared while another option of the
\* question and an option of another question held ranks.
C4_Witness ==
    /\ CallMade
    /\ lastCall.rank = ""
    /\ prevResponses[lastCall.qId][lastCall.optIdx] \in RankSet
    /\ \E k \in OthersOf(lastCall.qId, lastCall.optIdx) :
           responses[lastCall.qId][k] \in RankSet
    /\ \E q \in QIds \ {lastCall.qId} : hasAnyRank(responses[q])

\* C5 -- Idempotence: the same updateRank call made twice in a row leaves the
\* state the first call produced.
C5_Idempotent ==
    (CallMade /\ lastCall.twice) => responses = prevResponses

\* C5 witness: a numeric call was repeated on a question whose other option
\* holds a rank.
C5_Witness ==
    /\ CallMade
    /\ lastCall.twice
    /\ lastCall.rank \in NumericRanks
    /\ \E k \in OthersOf(lastCall.qId, lastCall.optIdx) :
           responses[lastCall.qId][k] \in RankSet

\* C6 -- Questions are independent: an updateRank call on q leaves the entries
\* of every other question as they were.
C6_QuestionsIndependent ==
    CallMade =>
        \A q \in QIds \ {lastCall.qId} : responses[q] = prevResponses[q]

\* C6 witness: a rank was given in one question while an option of another
\* question held the same rank, and both hold it now.
C6_Witness ==
    /\ CallMade
    /\ lastCall.rank \in RankSet
    /\ \E q \in QIds \ {lastCall.qId} : \E k \in DOMAIN responses[q] :
           /\ prevResponses[q][k] = lastCall.rank
           /\ responses[q][k] = lastCall.rank
    /\ responses[lastCall.qId][lastCall.optIdx] = lastCall.rank

\* A step of the submit handler: the click, or a continuation of the
\* submitForm call it awaits.
SubmitStep ==
    \/ HandleSubmit
    \/ FetchResolved
    \/ \E error \in FetchFailures : FetchRejected(error)
    \/ TimeoutFired
    \/ StaleTimerFired
    \/ BackoffElapsed

\* C7 -- The rank assignments are changed only by updateRank: no step of the
\* submit handler (validation, sanitizing, normalizing, attempts, retries,
\* failure or success) changes responses.
C7_SubmitKeepsRanks == [][SubmitStep => responses' = responses]_vars

\* C7 witness: a submission failed after its retries and the form still
\* holds the answers it was submitted with.
C7_Witness ==
    /\ submissionError = MsgGeneric
    /\ ~loading
    /\ ~submitted
    /\ \A q \in QIds : \E k \in DOMAIN responses[q] : responses[q][k] \in NumericRanks

\* What validateForm returns in the current state of the form.
validation == validateForm(questions, responses, finalComment)
ReportedUnanswered(qId) ==
    \E i \in 1..Len(validation.errors) :
        /\ validation.errors[i].type = "question"
        /\ validation.errors[i].qId = qId
NoLabel(qId) == \A k \in DOMAIN responses[qId] : responses[qId][k] \notin RankSet

\* C8 -- Completeness policy: validateForm reports a question as unanswered
\* iff none of its options holds a non-empty label; one "No" answers it.
C8_Completeness == \A q \in QIds : ReportedUnanswered(q) <=> NoLabel(q)

\* C8 witness: handleSubmit validated a form in which q1 has one option set
\* to "No" and nothing else; the errors it showed do not name q1.
C8_Witness ==
    /\ \E k \in DOMAIN responses["q1"] :
           /\ responses["q1"][k] = "No"
           /\ \A j \in DOMAIN responses["q1"] \ {k} : responses["q1"][j] \in {"", Undefined}
    /\ validationErrors # <<>>
    /\ validationErrors = validation.errors
    /\ ~ReportedUnanswered("q1")

\* The indexes (0-based, as qIdx) of the questions without a label, and
\* whether the comment is empty or made of whitespace only.
Unanswered == {k \in 0..(Len(questions) - 1) : NoLabel(questions[k + 1].id)}
CommentBlank == \A i \in 1..Len(finalComment) : finalComment[i] \in Whitespace

\* C9 -- validateForm returns one question error per unanswered question, in
\* question order, then one final-comment error iff the comment is empty or
\* whitespace only; isValid iff there is no error.
C9_ValidateResult ==
    LET errors == validation.errors
        n == Cardinality(Unanswered)
    IN /\ Len(errors) = n + (IF CommentBlank THEN 1 ELSE 0)
       /\ \A p \in 1..n :
              /\ errors[p].type = "question"
              /\ errors[p].qIdx \in Unanswered
              /\ errors[p].qId = questions[errors[p].qIdx + 1].id
              /\ Cardinality({u \in Unanswered : u < errors[p].qIdx}) = p - 1
       /\ CommentBlank => errors[n + 1].type = "final-comment"
       /\ validation.isValid <=> (errors = <<>>)

\* C9 witness: handleSubmit showed the errors of a form with q2 unanswered
\* and a whitespace-only comment: the q2 error, then the comment error.
C9_Witness ==
    /\ finalComment # <<>>
    /\ CommentBlank
    /\ ~NoLabel("q1")
    /\ NoLabel("q2")
    /\ validationErrors = validation.errors
    /\ Len(validationErrors) = 2
    /\ validationErrors[1].type = "question"
    /\ validationErrors[2].type = "final-comment"

\* C10 -- Focus priority: for any error list, getFirstUnansweredElementId gives
\* the element of the first question error if there is one, else the
\* final-comments element if there is a final-comment error, else null.
C10_FocusPriority ==
    LET errors == validationErrors
        qPos == {i \in 1..Len(errors) : errors[i].type = "question"}
        cPos == {i \in 1..Len(errors) : errors[i].type = "final-comment"}
    IN elementId # Undefined =>
        /\ qPos # {} =>
              \E i \in qPos : /\ \A j \in qPos : i <= j
                              /\ elementId = "question-" \o errors[i].qId
        /\ (qPos = {} /\ cPos # {}) => elementId = "final-comments"
        /\ (qPos = {} /\ cPos = {}) => elementId = Null

\* C10 witness: a list headed by the comment error, then the q2 error, then
\* the q1 error, was answered with q2's element.
C10_Witness ==
    /\ Len(validationErrors) >= 3
    /\ validationErrors[1].type = "final-comment"
    /\ validationErrors[2].type = "question"
    /\ validationErrors[2].qId = "q2"
    /\ validationErrors[3].type = "question"
    /\ validationErrors[3].qId = "q1"
    /\ elementId = "question-q2"

\* C11 -- Normalizer total coverage: for every question and option index the
\* payload holds the option's label when it is non-empty and "No" otherwise,
\* and no entry of the payload is "" or missing.
C11_TotalCoverage ==
    payload.timestamp # Undefined =>
        /\ DOMAIN payload.responses = QIds
        /\ \A q \in QIds :
               /\ DOMAIN payload.responses[q] = OptIdxs(q)
               /\ \A i \in OptIdxs(q) :
                      /\ payload.responses[q][i] \notin {"", Undefined}
                      /\ payload.responses[q][i] =
                             IF responses[q][i] \in RankSet
                             THEN responses[q][i] ELSE "No"

\* C11 witness: a payload built from answers with a numeric label, a cleared
\* option ("") and a never-touched option.
C11_Witness ==
    /\ payload.timestamp # Undefined
    /\ \E q \in QIds : \E i \in OptIdxs(q) :
           responses[q][i] = "" /\ payload.responses[q][i] = "No"
    /\ \E q \in QIds : \E i \in OptIdxs(q) :
           responses[q][i] = Undefined /\ payload.responses[q][i] = "No"
    /\ \E q \in QIds : \E i \in OptIdxs(q) :
           responses[q][i] \in NumericRanks /\ payload.responses[q][i] = responses[q][i]

\* Some pattern occurs in the text, letters compared without case.
containsPattern(text) == \E i \in 1..Len(text) : matchLength(text, i) > 0

\* C12 -- For every input and maxLength, what sanitizeTextInput returns holds
\* no occurrence, in any case, of "<script", "<iframe", "javascript:" or
\* "onerror=".
C12_NoPatternLeft ==
    cleanText.called => ~containsPattern(cleanText.value)

\* C13 -- Configuration error is not retried: a submit with an empty or
\* undefined endpoint raises the 'not configured' error at once, with no
\* network attempt, no onRetry call and no backoff wait, whatever maxRetries.
C13_ConfigNotRetried ==
    scriptUrl \in {Undefined, ""} =>
        /\ pc = "idle"
        /\ inFlight = 0
        /\ backoffMs = 0
        /\ timers = 0
        /\ log.fetches = 0
        /\ log.retries = <<>>
        /\ log.waits = <<>>
        /\ log.outcome \in {"none", "rejected"}
        /\ log.outcome = "rejected" =>
               /\ log.error = ConfigError.message
               /\ includes(log.error, <<"not", "configured">>)

\* C13 witness: such a submit was made with maxRetries above one and raised.
C13_Witness ==
    /\ scriptUrl \in {Undefined, ""}
    /\ maxRetries > 1
    /\ log.outcome = "rejected"
    /\ log.fetches = 0

\* A step that issues a fetch request.
FetchIssued == inFlight' > inFlight

\* C14 -- Within one submit call at most maxRetries network attempts are
\* issued, one after the other: attempt k+1 is issued only once attempt k has
\* failed and its backoff wait has elapsed, so no two requests of a call are
\* in flight together.
C14_Sequential ==
    [][ /\ inFlight' <= 1
        /\ log'.fetches <= maxRetries
        /\ FetchIssued =>
              /\ inFlight = 0
              /\ \/ pc = "idle" /\ attempt' = 1 /\ log'.fetches = 1
                 \/ /\ pc = "backoff"
                    /\ attempt' = attempt + 1
                    /\ log'.fetches = attempt + 1
                    /\ Len(log.failures) = attempt
                    /\ log'.waits = Append(log.waits, initialRetryDelay * attempt)
      ]_vars

\* C14 witness: the last attempt maxRetries allows, with maxRetries above one,
\* is in flight after the attempts before it failed and their waits elapsed.
C14_Witness ==
    /\ maxRetries > 1
    /\ pc = "fetch"
    /\ inFlight = 1
    /\ log.fetches = maxRetries
    /\ Len(log.failures) = maxRetries - 1
    /\ Len(log.waits) = maxRetries - 1

\* The onRetry call that follows the i-th failed attempt when another attempt
\* is to come.
RetryCall(i) ==
    [attempt |-> i, message |-> errorMessage(log.failures[i]),
     delayMs |-> initialRetryDelay * i]

C16_Exhaustion ==
    /\ []((/\ log.outcome = "rejected"
           /\ maxRetries >= 1
           /\ scriptUrl \notin {Undefined, ""}) =>
             /\ ~submitted /\ ~loading /\ pc = "idle" /\ inFlight = 0 /\ backoffMs = 0
             /\ log.fetches = maxRetries
             /\ Len(log.failures) = maxRetries
             /\ Len(log.retries) = maxRetries
             /\ \A i \in 1..(maxRetries - 1) : log.retries[i] = RetryCall(i)
             /\ log.retries[maxRetries] = [RetryCall(maxRetries) EXCEPT !.delayMs = 0]
             /\ Len(log.waits) = maxRetries - 1
             /\ includes(log.error, <<"after", ToString(maxRetries), "attempts:">>)
             /\ includes(log.error, log.failures[maxRetries].message))
    /\ [][log.outcome = "rejected" =>
             (log' = log \/ (pc = "idle" /\ log'.failures = <<>>))]_vars

\* C16 witness: three attempts failed, the last one by a connectivity fault.
C16_Witness ==
    /\ maxRetries = 3
    /\ log.outcome = "rejected"
    /\ log.fetches = 3
    /\ log.failures[3].name = "TypeError"
    /\ log.retries[3].delayMs = 0

\* The request in flight settles in this step, and the step is or is not the
\* firing of the attempt's timeout timer (a success clears the timer, a
\* rejection of the request's own leaves it armed).
Settles == pc = "fetch" /\ inFlight' = inFlight - 1
AtDeadline == Settles /\ timers' = timers - 1 /\ log'.outcome # "resolved"
LastOf(seq) == seq[Len(seq)]

\* C17 -- Per-attempt timeout: every attempt in flight has its timeout timer
\* armed; when the timer fires on a request in flight the request is aborted
\* in that step and the attempt fails classified as a timeout; a request that
\* settles before that is not aborted and not classified as a timeout.
C17_AttemptTimeout ==
    /\ [](inFlight > 0 => (pc = "fetch" /\ timers >= inFlight))
    /\ [][(pc = "fetch" /\ timers' = timers - 1 /\ staleTimers' = staleTimers)
             => Settles]_vars
    /\ [][AtDeadline =>
             /\ log'.failures = Append(log.failures, AbortError)
             /\ LastOf(log'.retries).attempt = attempt
             /\ LastOf(log'.retries).message =
                    <<"Request", "timeout", "after", ToString(timeout) \o "ms">>]_vars
    /\ [][(Settles /\ ~AtDeadline) =>
             \/ log'.outcome = "resolved" /\ log'.failures = log.failures
             \/ /\ Len(log'.failures) = Len(log.failures) + 1
                /\ LastOf(log'.failures).name # "AbortError"
                /\ ~includes(LastOf(log'.retries).message, <<"timeout">>)]_vars

\* C17 witness: the first attempt ran into its deadline and was reported as a
\* timeout, the second settled in time and the call resolved.
C17_Witness ==
    /\ log.outcome = "resolved"
    /\ log.fetches = 2
    /\ log.failures = <<AbortError>>
    /\ includes(log.retries[1].message, <<"timeout">>)

\* A step that issues the first request of a submitForm call.
CallStarts == FetchIssued /\ attempt' = 1

\* C18 -- At most one submission is in flight: loading is set before the first
\* network attempt of a submission and, while it is set, a second submit
\* request starts no second submitForm call and sends no payload.
C18_OneSubmission ==
    /\ [](inFlight <= 1 /\ (inFlight > 0 => loading))
    /\ [][CallStarts => (~loading /\ pc = "idle" /\ inFlight = 0 /\ loading')]_vars
    /\ [][loading => ~CallStarts]_vars

\* C18 witness: a submission is waiting to retry while the form is complete,
\* so that a submit request made now would pass validation.
C18_Witness ==
    /\ loading
    /\ pc = "backoff"
    /\ validation.isValid

\* C19 -- The busy flag is released on every exit path: loading is false once
\* the submitForm call has returned or raised, and is never cleared while an
\* attempt or a backoff wait of the submission is pending.
C19_BusyReleased ==
    /\ pc = "idle" => ~loading
    /\ pc \in {"fetch", "backoff"} => loading
    /\ inFlight > 0 => loading

\* C19 witness: a submission that ran out of attempts has left loading false
\* with no request in flight.
C19_Witness ==
    /\ ~loading
    /\ pc = "idle"
    /\ inFlight = 0
    /\ scriptUrl \notin {Undefined, ""}
    /\ submissionError = MsgGeneric

\* C20 -- Validation gates delivery: a submit request whose validation fails
\* records the validation errors, clears the submission error and does
\* nothing else (no busy flag, no payload, no attempt); the first attempt of a
\* submission is issued by a submit request whose validation passed.
C20_ValidationGates ==
    /\ [][(HandleSubmit /\ ~validation.isValid) =>
             /\ validationErrors' = validation.errors
             /\ validationErrors' # <<>>
             /\ submissionError' = ""
             /\ UNCHANGED <<responses, finalComment, otherText, submitted,
                            loading, pc, attempt, timers, lastError, inFlight,
                            backoffMs, log, cleanText, payload>>]_vars
    /\ [][CallStarts => (HandleSubmit /\ validation.isValid)]_vars

\* C20 witness: a submit request on an incomplete form, made after a failed
\* submission, has recorded its errors and left no submission error behind.
C20_Witness ==
    /\ ~validation.isValid
    /\ validationErrors = validation.errors
    /\ submissionError = ""
    /\ ~loading
    /\ pc = "idle"
    /\ timers > 0

\* C21 -- Truthful result: submitted is true if and only if a submitForm call
\* completed without raising; when submitForm raises, submitted stays false
\* and a non-empty submission error is recorded; submitted and a non-empty
\* submission error never hold together.
C21_TruthfulResult ==
    /\ submitted <=> log.outcome = "resolved"
    /\ log.outcome = "rejected" => (~submitted /\ submissionError # "")
    /\ ~(submitted /\ submissionError # "")

\* C21 witness: a call raised, and the first attempt of a later call succeeded
\* while a timer of the failed call was still pending.
C21_Witness ==
    /\ submitted
    /\ submissionError = ""
    /\ log.outcome = "resolved"
    /\ log.fetches = 1
    /\ timers > 0

\* C22 -- getErrorMessage is total and first-match: for every error, one
\* without a message included, it returns a non-empty string: the 'server
\* took too long' message if the message holds the timeout marker, else the
\* 'check your connection' message if it holds the network marker, else the
\* 'not properly configured' message if it holds the configuration marker,
\* else the generic message.
C22_FirstMatch ==
    described.called =>
        LET message == described.error.message
            hasTimeout == includes(message, <<"timeout">>)
            hasNetwork == includes(message, <<"Network", "error">>)
            hasConfig == includes(message, <<"not", "configured">>)
        IN /\ described.value # ""
           /\ hasTimeout => described.value = MsgTimeout
           /\ (~hasTimeout /\ hasNetwork) => described.value = MsgNetwork
           /\ (~hasTimeout /\ ~hasNetwork /\ hasConfig) => described.value = MsgConfig
           /\ (~hasTimeout /\ ~hasNetwork /\ ~hasConfig) =>
                  described.value = MsgGeneric

\* C22 witness: a message that holds the network and the timeout marker, in
\* that order, was described as a timeout.
C22_Witness ==
    /\ described.called
    /\ described.error.message = <<"Network", "error", "timeout">>
    /\ described.value = MsgTimeout

\* C23 -- Every submit call terminates: when requests settle or are cut off
\* by their timeout and backoff timers fire, a submitForm call returns or
\* raises after at most maxRetries attempts and maxRetries - 1 backoff waits,
\* and its attempt number never goes back.
C23_Terminates ==
    /\ (log.outcome = "pending") ~> (log.outcome \in {"resolved", "rejected"})
    /\ [](/\ log.fetches <= maxRetries
          /\ Len(log.waits) = 0 \/ Len(log.waits) <= maxRetries - 1
          /\ log.outcome \in {"resolved", "rejected"} => pc = "idle")
    /\ [][pc # "idle" => (attempt' >= attempt \/ pc' = "idle")]_vars

\* C23 witness: a call of three attempts, each cut off by its timeout, has
\* raised after two backoff waits.
C23_Witness ==
    /\ maxRetries = 3
    /\ log.outcome = "rejected"
    /\ log.failures = <<AbortError, AbortError, AbortError>>
    /\ Len(log.waits) = 2
    /\ pc = "idle"

\* C24 -- Failure classification reaches the user: when a submission fails
\* after its retries and the last attempt's failure was classified as timeout,
\* the message shown is the 'server took too long' one; when it was classified
\* as network, the message shown is the 'check your connection' one.
C24_ClassificationShown ==
    (/\ log.outcome = "rejected"
     /\ maxRetries >= 1
     /\ scriptUrl \notin {Undefined, ""}) =>
        LET classified == LastOf(log.retries).message
        IN /\ includes(classified, <<"timeout">>) => submissionError = MsgTimeout
           /\ includes(classified, <<"Network", "error">>) =>
                  submissionError = MsgNetwork

\* C25 -- Every payload handed to the transport carries a finalComment that
\* is non-empty after trimming: the required-comment rule that validateForm
\* enforces on the raw comment still holds for the sanitized comment that is
\* transmitted.
C25_CommentSent ==
    \A i \in 1..Len(log.bodies) : trim(log.bodies[i].finalComment) # <<>>

\* C26 -- The payload is a snapshot taken at submit time: every attempt of
\* one submit call transmits the same payload (timestamp, responses, otherText,
\* finalComment), the one normalized from the form when the submit started,
\* whatever rank clicks and text edits interleave with the attempts and waits.
C26_Snapshot ==
    /\ [](/\ Len(log.bodies) = log.fetches
          /\ \A i \in 1..Len(log.bodies) : log.bodies[i] = payload)
    /\ [][CallStarts => \E now \in Instants : payload' = data(now)]_vars
    /\ [][~CallStarts => payload' = payload]_vars

\* C26 witness: the third attempt of a call was sent after the ranks, the
\* "Other" answer and the comment were all edited since the submit.
C26_Witness ==
    /\ Len(log.bodies) = 3
    /\ pc = "fetch"
    /\ payload.responses[questions[1].id][0] # responses[questions[1].id][0]
    /\ DOMAIN payload.otherText # DOMAIN otherText
    /\ payload.finalComment # sanitizeCommentInput(finalComment)

\* C27 -- No timeout timer outlives its attempt: when an attempt ends, by
\* success, by timeout or by another failure, the timer armed for it is
\* cancelled or has fired, so that when submitForm returns or raises no timer
\* armed by the call is still pending.
C27_NoTimerLeft ==
    /\ log.outcome \in {"resolved", "rejected"} => timers = 0
    /\ staleTimers = 0

\* A submitForm call raises.
Raises == log.outcome # "rejected" /\ log'.outcome = "rejected"

\* The first submit request that passes validation after a call has raised.
Resubmits == log.outcome = "rejected" /\ log'.outcome = "pending"

\* C28 -- A failed submission is recoverable: after submitForm raises, the
\* rank assignments, otherText and finalComment are unchanged, the busy flag is
\* clear and submitted is false, so a later submit request re-validates and
\* starts a fresh submitForm call whose attempt counter starts again at 1 with
\* the full budget of maxRetries attempts.
C28_Recoverable ==
    /\ [][Raises => /\ UNCHANGED <<responses, otherText, finalComment>>
                    /\ ~loading' /\ ~submitted' /\ pc' = "idle"]_vars
    /\ [](log.outcome = "rejected" => ~loading /\ ~submitted /\ pc = "idle")
    /\ [][Resubmits => /\ validation.isValid
                       /\ attempt' = 1
                       /\ maxRetries' = DEFAULT_MAX_RETRIES
                       /\ log'.fetches = 1
                       /\ log'.failures = <<>>
                       /\ log'.waits = <<>>
                       /\ lastError' = NoError]_vars

\* C28 witness: after a call that raised, a second call has used its whole
\* budget of three attempts.
C28_Witness ==
    /\ log.fetches = DEFAULT_MAX_RETRIES
    /\ attempt = DEFAULT_MAX_RETRIES
    /\ pc = "fetch"
    /\ staleTimers > 0
    /\ Len(log.failures) = 2
    /\ \A i \in 1..2 : log.failures[i] = AbortError

\* C29 -- Success is terminal: once submitted is true it never becomes false
\* again, and from then on no assign, no submit request and no network attempt
\* occurs in the session.
C29_SuccessTerminal ==
    /\ [][submitted => /\ submitted'
                       /\ UNCHANGED responses
                       /\ ~HandleSubmit
                       /\ ~FetchIssued]_vars
    /\ [](submitted => pc = "idle" /\ inFlight = 0 /\ ~loading)

\* C29 witness: the form was submitted at its second attempt and the timer
\* of the failed first attempt is still to fire.
C29_Witness ==
    /\ submitted
    /\ timers > 0
    /\ validation.isValid

\* C30 -- The two useExclusiveRanking implementations of the repository agree
\* on numeric and clearing assignments: run side by side from the empty state
\* on the same updateRank calls, all with a label in {"1".."5", ""}, they are
\* in the same state after every step; they can differ only after a call with
\* label "No".
C30_HooksAgree == ~noUsed => responses = docResponses

\* C30 witness: after numeric and clearing calls only, the two hooks hold the
\* same options: one cleared and one ranked in a question, one untouched.
C30_Witness ==
    /\ ~noUsed
    /\ responses = docResponses
    /\ \E q \in QIds : \E i, k \in OptIdxs(q) :
           /\ responses[q][i] = ""
           /\ responses[q][k] \in NumericRanks
    /\ \E q \in QIds : \E i \in OptIdxs(q) : responses[q][i] = Undefined

====
